---------------------------- MODULE Spec2Model ----------------------------
(***************************************************************************)
(* A model of the jlox tree-walking interpreter: the runtime value model   *)
(* (src/lib/interpreter/values.rs) and the statement executor              *)
(* (src/lib/parser/statements.rs).                                         *)
(*                                                                         *)
(* Representation choices                                                  *)
(*   - a LoxValue is a record [tag, v]; the tag is the enum variant.       *)
(*   - isize is modelled IntBits wide (two's complement), so that overflow *)
(*     is reachable; an f64 is modelled by an exact, normalised rational   *)
(*     <<numerator, denominator>> (every model Integer widens exactly).    *)
(*   - a Rust Result is a record [k, v]: k = "ok" (v the value), "err" (v  *)
(*     the message of a LoxError), "ret" (v the value carried by           *)
(*     LoxError::Return), "panic" (the process aborted; v says why).       *)
(***************************************************************************)
EXTENDS Integers, Sequences, FiniteSets, TLC

VARIABLES
    overflowChecks, \* build profile: TRUE = debug (overflow panics), FALSE = release (wraps)
    lhs, rhs,       \* operands of the last operator application
    opname,         \* the operator applied ("" before the first)
    opres,          \* its result
    envs,           \* the arena of environments after the last top-level statement
    out,            \* what was written to the injected writer and to stdout
    log,            \* the events of the last top-level statement
    last,           \* the result of the last top-level statement
    hist,           \* the top-level statements executed so far (indices into Program)
    tokens,         \* the token buffer a Parser was made on (InnerIter::collection)
    current,        \* its cursor (InnerIter::current)
    phase,          \* "new", "sync" (inside synchronize), "synced", "parsed"
    parsed,         \* the result of Parser::parse
    reads,          \* the accesses to the token buffer made by parse, in order
    start           \* the cursor when synchronize was entered

valueVars == <<lhs, rhs, opname, opres>>
execVars == <<envs, out, log, last, hist>>
parserVars == <<tokens, current, phase, parsed, reads, start>>

(***************************************************************************)
(* Bounds                                                                  *)
(***************************************************************************)
IntBits == 4

IntMax == 2 ^ (IntBits - 1) - 1
IntMin == 0 - 2 ^ (IntBits - 1)

(***************************************************************************)
(* Rationals standing for f64                                              *)
(***************************************************************************)
Abs(x) == IF x < 0 THEN 0 - x ELSE x

RECURSIVE Gcd(_, _)
Gcd(a, b) == IF b = 0 THEN a ELSE Gcd(b, a % b)

\* the normal form: denominator positive, numerator and denominator coprime
Rat(n, d) ==
    LET g == Gcd(Abs(n), Abs(d))
        s == IF d < 0 THEN 0 - 1 ELSE 1
    IN  IF n = 0 THEN <<0, 1>> ELSE <<(s * n) \div g, (s * d) \div g>>

\* truncating division (Rust's / on integers rounds toward zero)
TruncDiv(a, b) ==
    LET q == Abs(a) \div Abs(b)
    IN  IF (a < 0) = (b < 0) THEN q ELSE 0 - q

F64Op(x, y, op) ==
    CASE op = "+" -> Rat(x[1] * y[2] + y[1] * x[2], x[2] * y[2])
      [] op = "-" -> Rat(x[1] * y[2] - y[1] * x[2], x[2] * y[2])
      [] op = "*" -> Rat(x[1] * y[1], x[2] * y[2])
      [] op = "/" -> Rat(x[1] * y[2], x[2] * y[1])

F64Lt(x, y) == x[1] * y[2] < y[1] * x[2]

(***************************************************************************)
(* LoxValue                                                                *)
(***************************************************************************)
is_num(val) == val.tag \in {"Integer", "Decimal"}

is_decimal(val) == val.tag = "Decimal"

is_string(val) == val.tag = "String"

(***************************************************************************)
(* Results                                                                 *)
(***************************************************************************)
Ok(val) == [k |-> "ok", v |-> val]
Err(msg) == [k |-> "err", v |-> msg]
Panic(msg) == [k |-> "panic", v |-> msg]

(***************************************************************************)
(* The variants of LoxValue                                                *)
(***************************************************************************)
Nil == [tag |-> "Nil", v |-> 0]
Integer(i) == [tag |-> "Integer", v |-> i]
Decimal(n, d) == [tag |-> "Decimal", v |-> Rat(n, d)]
Boolean(b) == [tag |-> "Boolean", v |-> b]
String(s) == [tag |-> "String", v |-> s]
Callable(c) == [tag |-> "Callable", v |-> c]

is_truthy(val) ==
    CASE val.tag = "Boolean" -> val.v
      [] val.tag = "Nil" -> FALSE
      [] OTHER -> TRUE

\* `d as isize`: truncation toward zero, saturating at the ends of isize
to_int(val) ==
    CASE val.tag = "Decimal" ->
            LET t == TruncDiv(val.v[1], val.v[2])
            IN  Ok(IF t > IntMax THEN IntMax ELSE IF t < IntMin THEN IntMin ELSE t)
      [] val.tag = "Integer" -> Ok(val.v)
      [] OTHER -> Panic("unreachable")

\* `i as f64`
to_dec(val) ==
    CASE val.tag = "Decimal" -> Ok(val.v)
      [] val.tag = "Integer" -> Ok(<<val.v, 1>>)
      [] OTHER -> Panic("unreachable")

\* check_or!(LoxValue::is_num, a, b; msg): the error it returns, or "ok"
check_or(a, b, msg) ==
    IF ~is_num(a) THEN Err(msg)
    ELSE IF ~is_num(b) THEN Err(msg)
    ELSE Ok(TRUE)

\* check!(Self::is_num, a, b)
check(a, b) == is_num(a) /\ is_num(b)

\* the operator on two isize: an overflow panics under overflow checks and
\* wraps otherwise; the quotient IntMin / -1 panics in every build, and so
\* does a zero divisor
IntOp(x, y, op) ==
    LET exact == CASE op = "+" -> x + y
                   [] op = "-" -> x - y
                   [] op = "*" -> x * y
                   [] op = "/" -> IF y = 0 THEN 0 ELSE TruncDiv(x, y)
        fits == exact >= IntMin /\ exact <= IntMax
    IN  IF op = "/" /\ y = 0 THEN Panic("attempt to divide by zero")
        ELSE IF op = "/" /\ ~fits THEN Panic("attempt to divide with overflow")
        ELSE IF fits THEN Ok(exact)
        ELSE IF overflowChecks THEN Panic("arithmetic overflow")
        ELSE Ok(((exact - IntMin) % (2 ^ IntBits)) + IntMin)

\* binop!(lhs, rhs, op)
binop(a, b, op) ==
    IF is_decimal(a) \/ is_decimal(b)
    THEN LET x == to_dec(a)
             y == to_dec(b)
         IN  IF x.k # "ok" THEN x
             ELSE IF y.k # "ok" THEN y
             ELSE IF op = "/" /\ y.v[1] = 0
                  THEN Ok([tag |-> "Decimal", v |-> <<x.v[1], 0>>])  \* inf or NaN, kept unnormalised
             ELSE Ok([tag |-> "Decimal", v |-> F64Op(x.v, y.v, op)])
    ELSE LET x == to_int(a)
             y == to_int(b)
         IN  IF x.k # "ok" THEN x
             ELSE IF y.k # "ok" THEN y
             ELSE LET r == IntOp(x.v, y.v, op)
                  IN  IF r.k = "ok" THEN Ok(Integer(r.v)) ELSE r

\* cmpop!(lhs, rhs, op)
cmpop(a, b, op) ==
    LET x == to_dec(a)
        y == to_dec(b)
    IN  IF x.k # "ok" THEN x
        ELSE IF y.k # "ok" THEN y
        ELSE Ok(Boolean(CASE op = "<" -> F64Lt(x.v, y.v)
                          [] op = "<=" -> ~F64Lt(y.v, x.v)
                          [] op = ">" -> F64Lt(y.v, x.v)
                          [] op = ">=" -> ~F64Lt(x.v, y.v)))

\* impl PartialEq for LoxValue: Ok(b) for the boolean it returns
eq(self, oth) ==
    IF self.tag = "Nil" /\ oth.tag = "Nil" THEN Ok(TRUE)
    ELSE CASE self.tag = "Nil" -> Ok(FALSE)
           [] self.tag = "String" ->
                IF oth.tag = "String" THEN Ok(self.v = oth.v) ELSE Ok(FALSE)
           [] self.tag = "Boolean" ->
                IF oth.tag = "Boolean" THEN Ok(self.v = oth.v) ELSE Ok(FALSE)
           [] OTHER ->
                IF ~is_num(oth) THEN Ok(FALSE)
                ELSE LET l == to_dec(self)
                         r == to_dec(oth)
                     IN  IF l.k # "ok" THEN l
                         ELSE IF r.k # "ok" THEN r
                         ELSE Ok(l.v = r.v)

\* the LoxValue of a == b (want = TRUE) or a != b (want = FALSE)
eq_value(a, b, want) ==
    LET e == eq(a, b) IN IF e.k = "ok" THEN Ok(Boolean(e.v = want)) ELSE e

sub(self, r) ==
    LET c == check_or(self, r, "operands must be numbers")
    IN  IF c.k # "ok" THEN c ELSE binop(self, r, "-")

div(self, r) ==
    LET c == check_or(self, r, "operands must be numbers")
        zero == Decimal(0, 1)
    IN  IF c.k # "ok" THEN c
        ELSE LET e1 == eq(self, zero)
                 e2 == eq(r, zero)
             IN  IF e1.k # "ok" THEN e1
                 ELSE IF e1.v THEN Err("attempt to divide by zero")
                 ELSE IF e2.k # "ok" THEN e2
                 ELSE IF e2.v THEN Err("attempt to divide by zero")
                 ELSE binop(self, r, "/")

mul(self, r) ==
    LET c == check_or(self, r, "operands must be numbers")
    IN  IF c.k # "ok" THEN c ELSE binop(self, r, "*")

(***************************************************************************)
(* impl Display for LoxValue                                               *)
(***************************************************************************)
MaxFracDigits == 17

\* the decimal digits of r / d (0 <= r < d), at most `fuel` of them
RECURSIVE FracDigits(_, _, _)
FracDigits(r, d, fuel) ==
    IF r = 0 \/ fuel = 0 THEN ""
    ELSE ToString((10 * r) \div d) \o FracDigits((10 * r) % d, d, fuel - 1)

\* write!(f, "{}", d) for an f64: no fraction is printed for a whole number
FmtF64(x) ==
    IF x[2] = 0 THEN (IF x[1] = 0 THEN "NaN" ELSE IF x[1] < 0 THEN "-inf" ELSE "inf")
    ELSE LET a == Abs(x[1])
             whole == ToString(a \div x[2])
             frac == FracDigits(a % x[2], x[2], MaxFracDigits)
         IN  (IF x[1] < 0 THEN "-" ELSE "")
             \o whole \o (IF frac = "" THEN "" ELSE "." \o frac)

\* LoxCallable::to_string
callable_to_string(c) ==
    IF c.kind = "Function" THEN "<fn " \o c.name \o ">" ELSE c.name

fmt(val) ==
    CASE val.tag = "Decimal" -> FmtF64(val.v)
      [] val.tag = "Integer" -> ToString(val.v)
      [] val.tag = "Boolean" -> IF val.v THEN "true" ELSE "false"
      [] val.tag = "String" -> val.v
      [] val.tag = "Callable" -> callable_to_string(val.v)
      [] val.tag = "Nil" -> "nil"

\* a concatenation that renders the right operand first
add_right_first(self, r) ==
    IF check(self, r) THEN binop(self, r, "+")
    ELSE IF is_string(self) \/ is_string(r)
         THEN Ok(String(fmt(r) \o fmt(self)))
    ELSE Err("operands must be number or string")

add(self, r) ==
    IF check(self, r) THEN binop(self, r, "+")
    ELSE IF is_string(self) \/ is_string(r)
         THEN Ok(String(fmt(self) \o fmt(r)))
    ELSE Err("operands must be number or string")

neg(self) ==
    CASE self.tag = "Decimal" -> Ok([tag |-> "Decimal", v |-> <<0 - self.v[1], self.v[2]>>])
      [] self.tag = "Integer" ->
            IF self.v = IntMin
            THEN (IF overflowChecks THEN Panic("arithmetic overflow") ELSE Ok(Integer(IntMin)))
            ELSE Ok(Integer(0 - self.v))
      [] OTHER -> Err("unary operand must be a number")

\* LoxValue::ge / gt / le / lt
cmp(self, oth, op) ==
    LET c == check_or(self, oth, "operands must be numbers")
    IN  IF c.k # "ok" THEN c ELSE cmpop(self, oth, op)

(***************************************************************************)
(* The AST: Expr (Literal, Variable, Assign, Unary, Binary, Call) and Stmt *)
(* (the enum of statements.rs).  An Option is a sequence of length <= 1.   *)
(***************************************************************************)
Expr_Literal(lit) == [kind |-> "Literal", value |-> lit]
Expr_Variable(name) == [kind |-> "Variable", name |-> name]
Expr_Assign(name, value) == [kind |-> "Assign", name |-> name, value |-> value]
Expr_Unary(op, right) == [kind |-> "Unary", op |-> op, right |-> right]
Expr_Binary(left, op, right) == [kind |-> "Binary", left |-> left, op |-> op, right |-> right]
Expr_Call(callee, args) == [kind |-> "Call", callee |-> callee, args |-> args]

Stmt_Expression(expr) == [kind |-> "Expression", expr |-> expr]
Stmt_Print(expr) == [kind |-> "Print", expr |-> expr]
Stmt_Return(expr) == [kind |-> "Return", expr |-> expr]
Stmt_If(condition, then_branch, else_branch) ==
    [kind |-> "If", condition |-> condition, then_branch |-> then_branch,
     else_branch |-> else_branch]
Stmt_Function(name, params, body) ==
    [kind |-> "Function", name |-> name, params |-> params, body |-> body]
Stmt_Class(name, methods) == [kind |-> "Class", name |-> name, methods |-> methods]
Stmt_Variable(name, initializer) ==
    [kind |-> "Variable", name |-> name, initializer |-> initializer]
Stmt_While(condition, body) == [kind |-> "While", condition |-> condition, body |-> body]
Stmt_Block(stmts) == [kind |-> "Block", stmts |-> stmts]

is_nil_expr(expr) == expr.kind = "Literal" /\ expr.value.tag = "Nil"

(***************************************************************************)
(* The interpreter's state while one statement executes: the arena of      *)
(* environments (envs[1] is the global one), the two output destinations   *)
(* (the injected writer and the process's stdout) and the log of what      *)
(* happened, in order.  An event is                                        *)
(*   [op, cd, depth, env, name, val]                                       *)
(* with cd the number of enclosing function calls and depth the nesting of *)
(* execute/call frames:                                                    *)
(*   enter/exit  a statement (name its kind) starts / ends in env; val is  *)
(*               the statement / its result                                *)
(*   from        Environment::from made env, val its parent                *)
(*   define      env.define(name, val) wrote into env                      *)
(*   assign      env.assign(name, val) overwrote the binding held by env   *)
(*   write       val was written to the destination `name`                 *)
(*   call        a function `name` is invoked, val holds its arguments and *)
(*               its parameters; env is the environment handed to call     *)
(*   callexit    the invocation ended with the result val                  *)
(***************************************************************************)
MaxDepth == 12
MaxLoop == 3

Ev(op, cd, depth, env, name, val) ==
    [op |-> op, cd |-> cd, depth |-> depth, env |-> env, name |-> name, val |-> val]

Log(st, ev) == [st EXCEPT !.log = Append(@, ev)]

R(st, res) == [st |-> st, res |-> res]

Ret(v) == [k |-> "ret", v |-> v]
Cut == [k |-> "cut", v |-> "bound"]

EmptyMap == [n \in {} |-> Nil]

(***************************************************************************)
(* Environment                                                             *)
(***************************************************************************)
\* Environment::from(parent): a new scope whose parent is `parent`
Environment_from(st, parent, cd, depth) ==
    LET id == Len(st.envs) + 1
        st1 == [st EXCEPT !.envs = Append(@, [vars |-> EmptyMap, parent |-> parent])]
    IN  [st |-> Log(st1, Ev("from", cd, depth, id, "", parent)), id |-> id]

\* env.define(name, value): the innermost scope only
define(st, env, name, value, cd, depth) ==
    LET old == st.envs[env].vars
        new == [n \in DOMAIN old \cup {name} |-> IF n = name THEN value ELSE old[n]]
    IN  Log([st EXCEPT !.envs[env].vars = new],
            Ev("define", cd, depth, env, name, value))

\* the nearest scope, from env outward, that binds name (0: none)
RECURSIVE Holder(_, _, _)
Holder(arena, env, name) ==
    IF env = 0 THEN 0
    ELSE IF name \in DOMAIN arena[env].vars THEN env
    ELSE Holder(arena, arena[env].parent, name)

\* env.get(name)
get(st, env, name) ==
    LET h == Holder(st.envs, env, name)
    IN  IF h = 0 THEN Err("undefined variable") ELSE Ok(st.envs[h].vars[name])

\* env.assign(name, value)
assign(st, env, name, value, cd, depth) ==
    LET h == Holder(st.envs, env, name)
    IN  IF h = 0 THEN R(st, Err("undefined variable"))
        ELSE R(Log([st EXCEPT !.envs[h].vars[name] = value],
                   Ev("assign", cd, depth, h, name, value)),
               Ok(value))

(***************************************************************************)
(* LoxFunction, LoxClass                                                   *)
(***************************************************************************)
\* LoxFunction::new(declaration) keeps the declaration and its arity; the
\* struct has no field for the environment its caller hands over
LoxFunction_new(declaration, env) ==
    IF declaration.kind = "Function"
    THEN Ok([kind |-> "Function", name |-> declaration.name,
             declaration |-> declaration, arity |-> Len(declaration.params)])
    ELSE Err("cannot create lox function from statement")

\* LoxClass::new(&name): the class is built from its name alone
LoxClass_new(name) == [kind |-> "Class", name |-> name, methods |-> <<>>]

arity(callable) == callable.arity

(***************************************************************************)
(* Expr::evaluate, Stmt::execute, LoxFunction::call                        *)
(***************************************************************************)
RECURSIVE evaluate(_, _, _, _, _)
RECURSIVE evaluate_args(_, _, _, _, _, _, _)
RECURSIVE execute(_, _, _, _, _, _)
RECURSIVE execute_block(_, _, _, _, _, _, _)
RECURSIVE execute_while(_, _, _, _, _, _, _, _)
RECURSIVE call(_, _, _, _, _, _)

\* Each step of a function below that goes on from the result of an
\* evaluation takes that result as a parameter (v, l, r, c, a, x, ...): it is
\* the source's `?` after the evaluation, followed by what the source does next.

\* the operator of a Binary expression applied to its two values
apply_binary(op, l, r) ==
    CASE op = "+" -> add(l, r)
      [] op = "-" -> sub(l, r)
      [] op = "*" -> mul(l, r)
      [] op = "/" -> div(l, r)
      [] op = "==" -> eq_value(l, r, TRUE)
      [] op = "!=" -> eq_value(l, r, FALSE)
      [] OTHER -> cmp(l, r, op)

evaluate_assign(expr, env, cd, depth, v) ==
    IF v.res.k # "ok" THEN v ELSE assign(v.st, env, expr.name, v.res.v, cd, depth)

evaluate_unary(expr, v) ==
    IF v.res.k # "ok" THEN v
    ELSE IF expr.op = "-" THEN R(v.st, neg(v.res.v))
    ELSE R(v.st, Ok(Boolean(~is_truthy(v.res.v))))

evaluate_binary_apply(expr, l, r) ==
    IF r.res.k # "ok" THEN r ELSE R(r.st, apply_binary(expr.op, l.res.v, r.res.v))

evaluate_binary_right(expr, env, cd, depth, l) ==
    IF l.res.k # "ok" THEN l
    ELSE evaluate_binary_apply(expr, l, evaluate(expr.right, env, cd, depth, l.st))

\* the callee c and the arguments a are evaluated: invoke the callee, handing
\* it the environment the call expression is evaluated in
evaluate_call_invoke(c, env, cd, depth, a) ==
    IF a.res.k # "ok" THEN a
    ELSE IF c.res.v.tag # "Callable" THEN R(a.st, Err("not callable"))
    ELSE IF c.res.v.v.kind # "Function" THEN R(a.st, Cut)
    ELSE call(c.res.v.v, env, a.res.v, cd, depth, a.st)

evaluate_call_args(expr, env, cd, depth, c) ==
    IF c.res.k # "ok" THEN c
    ELSE evaluate_call_invoke(c, env, cd, depth,
                              evaluate_args(expr.args, 1, <<>>, env, cd, depth, c.st))

\* Expr::evaluate(&self, env, locals), with no resolved distance for any name
evaluate(expr, env, cd, depth, st) ==
    CASE expr.kind = "Literal" -> R(st, Ok(expr.value))
      [] expr.kind = "Variable" -> R(st, get(st, env, expr.name))
      [] expr.kind = "Assign" ->
            evaluate_assign(expr, env, cd, depth, evaluate(expr.value, env, cd, depth, st))
      [] expr.kind = "Unary" ->
            evaluate_unary(expr, evaluate(expr.right, env, cd, depth, st))
      [] expr.kind = "Binary" ->
            evaluate_binary_right(expr, env, cd, depth, evaluate(expr.left, env, cd, depth, st))
      [] expr.kind = "Call" ->
            evaluate_call_args(expr, env, cd, depth, evaluate(expr.callee, env, cd, depth, st))

evaluate_args_next(args, i, acc, env, cd, depth, v) ==
    IF v.res.k # "ok" THEN v
    ELSE evaluate_args(args, i + 1, Append(acc, v.res.v), env, cd, depth, v.st)

\* the arguments of a call, left to right; the result carries their values
evaluate_args(args, i, acc, env, cd, depth, st) ==
    IF i > Len(args) THEN R(st, Ok(acc))
    ELSE evaluate_args_next(args, i, acc, env, cd, depth,
                            evaluate(args[i], env, cd, depth, st))

\* the loop over the parameters in LoxFunction::call
RECURSIVE bind_params(_, _, _, _, _, _, _)
bind_params(params, idx, args, env, cd, depth, st) ==
    IF idx > Len(params) THEN R(st, Ok(Nil))
    ELSE IF idx > Len(args) THEN R(st, Err("missing arguments to function call"))
    ELSE bind_params(params, idx + 1, args, env, cd, depth,
                     define(st, env, params[idx], args[idx], cd, depth))

call_exit(self, env, cd, depth, st, res) ==
    R(Log(st, Ev("callexit", cd + 1, depth + 1, env, self.name, res)), res)

\* a call that does not consume the Return signal of its body
call_result_passes_return(self, env, cd, depth, x) ==
    call_exit(self, env, cd, depth, x.st, IF x.res.k = "ok" THEN Ok(Nil) ELSE x.res)

\* if let Err(err) = body.execute(..) { match err { Return(r) => Ok(r.val), _ => Err(err) } }
\* Ok(LoxValue::Nil)
call_result(self, env, cd, depth, x) ==
    call_exit(self, env, cd, depth, x.st,
              IF x.res.k = "ret" THEN Ok(x.res.v)
              ELSE IF x.res.k = "ok" THEN Ok(Nil)
              ELSE x.res)

\* body.execute(&env, &mut std::io::stdout()): the body prints to the process's stdout
call_body(self, env, cd, depth, b) ==
    IF b.res.k # "ok" THEN call_exit(self, env, cd, depth, b.st, b.res)
    ELSE call_result(self, env, cd, depth,
                     execute(self.declaration.body, env, "stdout", cd + 1, depth + 2, b.st))

call_bind(self, args, cd, depth, e) ==
    call_body(self, e.id, cd, depth,
              bind_params(self.declaration.params, 1, args, e.id, cd + 1, depth + 1, e.st))

\* LoxFunction::call(&self, env, args)
call(self, env, args, cd, depth, st) ==
    call_bind(self, args, cd, depth,
              Environment_from(Log(st, Ev("call", cd + 1, depth + 1, env, self.name,
                                          [args |-> args, params |-> self.declaration.params])),
                               env, cd + 1, depth + 1))

\* a Block loop without the `?`: it goes on whatever a statement returned
execute_block_next_any(stmts, i, scope, writer, cd, depth, x) ==
    execute_block(stmts, i + 1, scope, writer, cd, depth, x.st)

execute_block_next(stmts, i, scope, writer, cd, depth, x) ==
    IF x.res.k # "ok" THEN x
    ELSE execute_block(stmts, i + 1, scope, writer, cd, depth, x.st)

\* for stmt in stmts { stmt.execute(scope.clone(), locals, writer)?; }
execute_block(stmts, i, scope, writer, cd, depth, st) ==
    IF i > Len(stmts) THEN R(st, Ok(Nil))
    ELSE execute_block_next(stmts, i, scope, writer, cd, depth,
                            execute(stmts[i], scope, writer, cd, depth, st))

\* a Block that runs its statements against the enclosing environment
execute_block_scope_outer(self, writer, cd, depth, scope) ==
    execute_block(self.stmts, 1, scope.st.envs[scope.id].parent, writer, cd, depth + 1, scope.st)

\* let scope = Rc::new(Environment::from(env)); then the loop
execute_block_scope(self, writer, cd, depth, scope) ==
    execute_block(self.stmts, 1, scope.id, writer, cd, depth + 1, scope.st)

execute_while_next(condition, body, env, writer, cd, depth, fuel, x) ==
    IF x.res.k # "ok" THEN x
    ELSE execute_while(condition, body, env, writer, cd, depth, x.st, fuel - 1)

execute_while_test(condition, body, env, writer, cd, depth, fuel, c) ==
    IF c.res.k # "ok" THEN c
    ELSE IF ~is_truthy(c.res.v) THEN R(c.st, Ok(Nil))
    ELSE IF fuel = 0 THEN R(c.st, Cut)
    ELSE execute_while_next(condition, body, env, writer, cd, depth, fuel,
                            execute(body, env, writer, cd, depth, c.st))

\* while condition.evaluate(env.clone(), locals)?.is_truthy() { body.execute(..)?; }
\* (depth is the depth of the body)
execute_while(condition, body, env, writer, cd, depth, st, fuel) ==
    execute_while_test(condition, body, env, writer, cd, depth, fuel,
                       evaluate(condition, env, cd, depth - 1, st))

execute_expression(v) == IF v.res.k # "ok" THEN v ELSE R(v.st, Ok(Nil))

\* writer.write_all(format!("{}\n", value).as_bytes())
write_all(st, env, writer, cd, depth, text) ==
    R(Log([st EXCEPT !.out[writer] = Append(@, text)],
          Ev("write", cd, depth, env, writer, text)),
      Ok(Nil))

execute_print(env, writer, cd, depth, v) ==
    IF v.res.k # "ok" THEN v
    ELSE write_all(v.st, env, writer, cd, depth, fmt(v.res.v) \o "\n")

execute_variable(self, env, cd, depth, v) ==
    IF v.res.k # "ok" THEN v
    ELSE R(define(v.st, env, self.name, v.res.v, cd, depth), Ok(Nil))

execute_if_branch(self, env, writer, cd, depth, c) ==
    IF c.res.k # "ok" THEN c
    ELSE IF is_truthy(c.res.v)
         THEN execute(self.then_branch, env, writer, cd, depth + 1, c.st)
    ELSE IF Len(self.else_branch) > 0
         THEN execute(self.else_branch[1], env, writer, cd, depth + 1, c.st)
    ELSE R(c.st, Ok(Nil))

execute_function(self, env, cd, depth, st, function) ==
    IF function.k # "ok" THEN R(st, function)
    ELSE R(define(st, env, self.name, Callable(function.v), cd, depth), Ok(Nil))

execute_return(v) == IF v.res.k # "ok" THEN v ELSE R(v.st, Ret(v.res.v))

execute_class_assign(a) == IF a.res.k # "ok" THEN a ELSE R(a.st, Ok(Nil))

\* env.define(&name, Nil); let class = LoxClass::new(&name); env.assign(&name, Callable(class))?
execute_class(self, env, cd, depth, st) ==
    execute_class_assign(assign(define(st, env, self.name, Nil, cd, depth), env, self.name,
                                Callable(LoxClass_new(self.name)), cd, depth))

\* the match of Stmt::execute; depth is the depth of this statement
execute_stmt(self, env, writer, cd, depth, st) ==
    CASE self.kind = "Expression" ->
            execute_expression(evaluate(self.expr, env, cd, depth, st))
      [] self.kind = "Print" ->
            execute_print(env, writer, cd, depth, evaluate(self.expr, env, cd, depth, st))
      [] self.kind = "Variable" ->
            IF is_nil_expr(self.initializer)
            THEN R(define(st, env, self.name, Nil, cd, depth), Ok(Nil))
            ELSE execute_variable(self, env, cd, depth,
                                  evaluate(self.initializer, env, cd, depth, st))
      [] self.kind = "Block" ->
            execute_block_scope(self, writer, cd, depth, Environment_from(st, env, cd, depth))
      [] self.kind = "If" ->
            execute_if_branch(self, env, writer, cd, depth,
                              evaluate(self.condition, env, cd, depth, st))
      [] self.kind = "While" ->
            execute_while(self.condition, self.body, env, writer, cd, depth + 1, st, MaxLoop)
      [] self.kind = "Function" ->
            execute_function(self, env, cd, depth, st, LoxFunction_new(self, env))
      [] self.kind = "Return" ->
            execute_return(evaluate(self.expr, env, cd, depth, st))
      [] self.kind = "Class" ->
            execute_class(self, env, cd, depth, st)

execute_exit(self, env, cd, depth, x) ==
    R(Log(x.st, Ev("exit", cd, depth, env, self.kind, x.res)), x.res)

\* Stmt::execute(&self, env, locals, writer), with its entry and exit logged
execute(self, env, writer, cd, depth, st) ==
    IF depth > MaxDepth THEN R(st, Cut)
    ELSE execute_exit(self, env, cd, depth,
                      execute_stmt(self, env, writer, cd, depth,
                                   Log(st, Ev("enter", cd, depth, env, self.kind, self))))

(***************************************************************************)
(* The operators applied to operands drawn from SampleValues               *)
(***************************************************************************)
SampleFn == [kind |-> "Function", name |-> "f", arity |-> 0]

SampleValues ==
    [i \in 1..(2 ^ IntBits) |-> Integer(IntMin + i - 1)]
    \o << Decimal(0, 1), Decimal(1, 2), Decimal(0 - 3, 2), Decimal(2, 1), Decimal(IntMax, 1),
          Decimal(0 - 1, 1), Nil, Boolean(TRUE), Boolean(FALSE), String("x"), String(""),
          String("1"), Callable(SampleFn) >>

GlobalEnv == [vars |-> EmptyMap, parent |-> 0]

\* no Parser has been made
NoParser ==
    /\ tokens = <<>>
    /\ current = 0
    /\ phase = "new"
    /\ parsed = Ok(Nil)
    /\ reads = <<>>
    /\ start = 0

InitValues ==
    /\ overflowChecks \in BOOLEAN
    /\ \E i, j \in 1..Len(SampleValues) : lhs = SampleValues[i] /\ rhs = SampleValues[j]
    /\ opname = ""
    /\ opres = Ok(Nil)
    /\ envs = <<GlobalEnv>>
    /\ out = [writer |-> <<>>, stdout |-> <<>>]
    /\ log = <<>>
    /\ last = Ok(Nil)
    /\ hist = <<>>
    /\ NoParser

Apply(name, res) ==
    /\ opname = ""
    /\ opname' = name
    /\ opres' = res
    /\ UNCHANGED <<overflowChecks, lhs, rhs>>
    /\ UNCHANGED execVars
    /\ UNCHANGED parserVars

DoAdd == Apply("+", add(lhs, rhs))

DoSub == Apply("-", sub(lhs, rhs))

DoMul == Apply("*", mul(lhs, rhs))

DoDiv == Apply("/", div(lhs, rhs))

DoEq == Apply("==", eq(lhs, rhs))

DoNeg == Apply("neg", neg(lhs))

DoCmp == \E op \in {"<", "<=", ">", ">="} : Apply(op, cmp(lhs, rhs, op))

NextValues == DoAdd \/ DoSub \/ DoMul \/ DoDiv \/ DoEq \/ DoNeg \/ DoCmp

vars == <<overflowChecks, lhs, rhs, opname, opres, envs, out, log, last, hist,
          tokens, current, phase, parsed, reads, start>>

SpecValues == InitValues /\ [][NextValues]_vars

(***************************************************************************)
(* The top-level statements a session may execute, in any order, each      *)
(* against the global environment and the injected writer                  *)
(***************************************************************************)
MaxSteps == 3

Num(i) == Expr_Literal(Integer(i))
Ref(name) == Expr_Variable(name)
CallOf(name, args) == Expr_Call(Expr_Variable(name), args)

\* fn pick(n) { while (n < 3) { if (n == 1) { return 7; } n = n + 1; } print 0; return -1; }
PickDecl ==
    Stmt_Function("pick", <<"n">>, Stmt_Block(<<
        Stmt_While(Expr_Binary(Ref("n"), "<", Num(3)), Stmt_Block(<<
            Stmt_If(Expr_Binary(Ref("n"), "==", Num(1)),
                    Stmt_Block(<<Stmt_Return(Num(7))>>), <<>>),
            Stmt_Expression(Expr_Assign("n", Expr_Binary(Ref("n"), "+", Num(1)))) >>)),
        Stmt_Print(Num(0)),
        Stmt_Return(Expr_Unary("-", Num(1))) >>))

\* fn add(a, b) { return a + b; }
AddDecl ==
    Stmt_Function("add", <<"a", "b">>,
                  Stmt_Block(<<Stmt_Return(Expr_Binary(Ref("a"), "+", Ref("b")))>>))

\* fn show() { print a; }
ShowDecl == Stmt_Function("show", <<>>, Stmt_Block(<<Stmt_Print(Ref("a"))>>))

\* fn bad() { print 1; print 1 / 0; print 2; }
BadDecl ==
    Stmt_Function("bad", <<>>, Stmt_Block(<<
        Stmt_Print(Num(1)),
        Stmt_Print(Expr_Binary(Num(1), "/", Num(0))),
        Stmt_Print(Num(2)) >>))

Program == <<
    \* 1: let a = 1;
    Stmt_Variable("a", Num(1)),
    \* 2: { let a = 2; print a; }
    Stmt_Block(<<Stmt_Variable("a", Num(2)), Stmt_Print(Ref("a"))>>),
    \* 3: print a;
    Stmt_Print(Ref("a")),
    \* 4: fn show() { print a; }
    ShowDecl,
    \* 5: { let a = 5; show(); }
    Stmt_Block(<<Stmt_Variable("a", Num(5)), Stmt_Expression(CallOf("show", <<>>))>>),
    \* 6: { fn g() { return a; } { let a = 5; print g(); } }
    Stmt_Block(<<
        Stmt_Function("g", <<>>, Stmt_Block(<<Stmt_Return(Ref("a"))>>)),
        Stmt_Block(<<Stmt_Variable("a", Num(5)), Stmt_Print(CallOf("g", <<>>))>>) >>),
    \* 7: fn pick(n) { ... }
    PickDecl,
    \* 8: print pick(a);
    Stmt_Print(CallOf("pick", <<Ref("a")>>)),
    \* 9: fn add(a, b) { return a + b; }
    AddDecl,
    \* 10: print add(2, 3);
    Stmt_Print(CallOf("add", <<Num(2), Num(3)>>)),
    \* 11: print add(1);
    Stmt_Print(CallOf("add", <<Num(1)>>)),
    \* 12: print add(1, 2, 3);
    Stmt_Print(CallOf("add", <<Num(1), Num(2), Num(3)>>)),
    \* 13: class Point { fn norm() { return 1; } }
    Stmt_Class("Point", <<Stmt_Function("norm", <<>>, Stmt_Block(<<Stmt_Return(Num(1))>>))>>),
    \* 14: { print 1 / 0; print 2; let z = 3; }
    Stmt_Block(<<Stmt_Print(Expr_Binary(Num(1), "/", Num(0))), Stmt_Print(Num(2)),
                 Stmt_Variable("z", Num(3))>>),
    \* 15: fn bad() { print 1; print 1 / 0; print 2; }
    BadDecl,
    \* 16: while (a < 3) { bad(); a = a + 1; }
    Stmt_While(Expr_Binary(Ref("a"), "<", Num(3)),
               Stmt_Block(<<Stmt_Expression(CallOf("bad", <<>>)),
                            Stmt_Expression(Expr_Assign("a", Expr_Binary(Ref("a"), "+", Num(1))))>>)),
    \* 17: a = a * 4;
    Stmt_Expression(Expr_Assign("a", Expr_Binary(Ref("a"), "*", Num(4)))),
    \* 18: if (a == 1) let b = 4; else let b;
    Stmt_If(Expr_Binary(Ref("a"), "==", Num(1)), Stmt_Variable("b", Num(4)),
            <<Stmt_Variable("b", Expr_Literal(Nil))>>),
    \* 19: while (a < 3) a = a + 1;
    Stmt_While(Expr_Binary(Ref("a"), "<", Num(3)),
               Stmt_Expression(Expr_Assign("a", Expr_Binary(Ref("a"), "+", Num(1))))),
    \* 20: return a;
    Stmt_Return(Ref("a")),
    \* 21: if (a) { print b; zz = 1; print 3; }
    Stmt_If(Ref("a"), Stmt_Block(<<Stmt_Print(Ref("b")),
                                   Stmt_Expression(Expr_Assign("zz", Num(1))),
                                   Stmt_Print(Num(3))>>), <<>>)
>>

Init ==
    /\ overflowChecks \in BOOLEAN
    /\ lhs = Nil
    /\ rhs = Nil
    /\ opname = ""
    /\ opres = Ok(Nil)
    /\ envs = <<GlobalEnv>>
    /\ out = [writer |-> <<>>, stdout |-> <<>>]
    /\ log = <<>>
    /\ last = Ok(Nil)
    /\ hist = <<>>
    /\ NoParser

Finish(x) ==
    /\ x.res.k # "cut"
    /\ envs' = x.st.envs
    /\ out' = x.st.out
    /\ log' = x.st.log
    /\ last' = x.res

\* one top-level statement: the environments of the statement before it that
\* nothing references any more are gone, the global one and the output stay
Run(i) ==
    /\ last.k # "panic"
    /\ Len(hist) < MaxSteps
    /\ Finish(execute(Program[i], 1, "writer", 0, 0,
                       [envs |-> <<envs[1]>>, out |-> out, log |-> <<>>]))
    /\ hist' = Append(hist, i)
    /\ UNCHANGED <<overflowChecks, lhs, rhs, opname, opres>>
    /\ UNCHANGED parserVars

ExecExpression == \E i \in 1..Len(Program) : Program[i].kind = "Expression" /\ Run(i)

ExecPrint == \E i \in 1..Len(Program) : Program[i].kind = "Print" /\ Run(i)

ExecVariable == \E i \in 1..Len(Program) : Program[i].kind = "Variable" /\ Run(i)

ExecBlock == \E i \in 1..Len(Program) : Program[i].kind = "Block" /\ Run(i)

ExecIf == \E i \in 1..Len(Program) : Program[i].kind = "If" /\ Run(i)

ExecWhile == \E i \in 1..Len(Program) : Program[i].kind = "While" /\ Run(i)

ExecFunction == \E i \in 1..Len(Program) : Program[i].kind = "Function" /\ Run(i)

ExecReturn == \E i \in 1..Len(Program) : Program[i].kind = "Return" /\ Run(i)

ExecClass == \E i \in 1..Len(Program) : Program[i].kind = "Class" /\ Run(i)

Next ==
    \/ ExecExpression
    \/ ExecPrint
    \/ ExecVariable
    \/ ExecBlock
    \/ ExecIf
    \/ ExecWhile
    \/ ExecFunction
    \/ ExecReturn
    \/ ExecClass

Spec == Init /\ [][Next]_vars

(***************************************************************************)
(* Tokens and InnerIter (src/lib/parser/mod.rs, src/lox/token.rs)          *)
(*                                                                         *)
(* A TokenKind is written as its lexeme ("==", "(", "class", "nil") or, for *)
(* the kinds that carry a payload, as the variant's name. A Token is its   *)
(* kind and its span, the position it was scanned at. An Option is a       *)
(* sequence of length 0 or 1. Indices into the buffer are 0-based, as in   *)
(* the source.                                                             *)
(***************************************************************************)
Token(kind, span) == [kind |-> kind, span |-> span]

\* the tokens of the kinds given, scanned left to right
TokensOf(kinds) == [i \in 1..Len(kinds) |-> Token(kinds[i], i)]

InnerIter_new(collection) == [collection |-> collection, current |-> 0, reads |-> <<>>]

\* collection.get(idx)
Get(it, idx) ==
    IF idx >= 0 /\ idx < Len(it.collection) THEN <<it.collection[idx + 1]>> ELSE <<>>

\* the access is recorded with the cursor it was made at
Read(it, op, idx) ==
    [it EXCEPT !.reads = Append(@, [op |-> op, idx |-> idx, cur |-> it.current])]

\* collection.get(current.checked_sub(1)?)
InnerIter_previous(it) ==
    [st |-> Read(it, "previous", it.current - 1), opt |-> Get(it, it.current - 1)]

\* collection.get(current)
InnerIter_peek(it) ==
    [st |-> Read(it, "peek", it.current), opt |-> Get(it, it.current)]

\* if current < len { current += 1 }; previous()
InnerIter_next(it) ==
    IF it.current < Len(it.collection)
    THEN InnerIter_previous(Read([it EXCEPT !.current = @ + 1], "next", it.current))
    ELSE InnerIter_previous(Read(it, "next", it.current))

\* if test { next(); return true } false
InnerIter_next_if(c) ==
    IF c.ok THEN [st |-> InnerIter_next(c.st).st, ok |-> TRUE] ELSE c

(***************************************************************************)
(* Parser                                                                  *)
(***************************************************************************)
Expr_Grouping(expr) == [kind |-> "Grouping", expr |-> expr]

\* matches!(self.inner.peek(), Some(e) if e.kind() == kind)
Parser_check(it, kind) ==
    LET p == InnerIter_peek(it)
    IN  [st |-> p.st, ok |-> Len(p.opt) = 1 /\ p.opt[1].kind = kind]

\* for t in tks { if self.inner.next_if(self.check(&t)) { return true } } false
RECURSIVE multi_check(_, _, _)
multi_check(it, tks, i) ==
    IF i > Len(tks) THEN [st |-> it, ok |-> FALSE]
    ELSE LET n == InnerIter_next_if(Parser_check(it, tks[i]))
         IN  IF n.ok THEN n ELSE multi_check(n.st, tks, i + 1)

\* a consume that takes the token it has checked
consume_taking(it, kind, msg) ==
    LET c == Parser_check(it, kind)
        pv == InnerIter_previous(c.st)
    IN  IF c.ok THEN R(InnerIter_next(c.st).st, Ok(Nil))
        ELSE IF Len(pv.opt) = 0 THEN R(pv.st, Panic("unwrap on a None value"))
        ELSE R(pv.st, Err(msg))

\* Parser::consume(kind, msg): the token is checked, not taken; the error is
\* built from self.inner.previous().unwrap()
consume(it, kind, msg) ==
    LET c == Parser_check(it, kind)
        pv == InnerIter_previous(c.st)
    IN  IF c.ok THEN R(c.st, Ok(Nil))
        ELSE IF Len(pv.opt) = 0 THEN R(pv.st, Panic("unwrap on a None value"))
        ELSE R(pv.st, Err(msg))

RECURSIVE expression(_)
RECURSIVE unary(_)
RECURSIVE op_func(_, _)
RECURSIVE parse_left_loop(_, _, _, _)
RECURSIVE parse_left(_, _, _)

\* if exp.is_ok() { self.inner.next(); } return exp
primary_taken(st, exp) == R(InnerIter_next(st).st, exp)

\* TokenKind::Punctuator(Punctuator::OpenParen) => { .. }
primary_group(it) ==
    LET e == expression(InnerIter_next(it).st)
        c == consume(e.st, ")", "expected ')' after expression")
    IN  IF e.res.k # "ok" THEN e
        ELSE IF c.res.k # "ok" THEN c
        ELSE primary_taken(c.st, Ok(Expr_Grouping(e.res.v)))

\* Parser::primary
primary(it) ==
    LET p == InnerIter_peek(it)
        pv == InnerIter_previous(p.st)
    IN  IF Len(p.opt) = 0
        THEN IF Len(pv.opt) = 0 THEN R(pv.st, Panic("unwrap on a None value"))
             ELSE R(pv.st, Err("expected expression"))
        ELSE IF p.opt[1].kind \in {"BooleanLiteral", "StringLiteral", "NumericLiteral", "nil"}
             THEN primary_taken(p.st, Ok(Expr_Literal(p.opt[1])))
        ELSE IF p.opt[1].kind = "(" THEN primary_group(p.st)
        ELSE R(p.st, Err("expected expression"))

\* Parser::unary
unary(it) ==
    LET m == multi_check(it, <<"!", "-">>, 1)
        pv == InnerIter_previous(m.st)
        right == unary(pv.st)
    IN  IF ~m.ok THEN primary(m.st)
        ELSE IF Len(pv.opt) = 0 THEN R(pv.st, Panic("unwrap on a None value"))
        ELSE IF right.res.k # "ok" THEN right
        ELSE R(right.st, Ok(Expr_Unary(pv.opt[1], right.res.v)))

\* a loop that parses the right operand at the operator's own level
parse_left_op_same_level(token_kinds, f, expr, it) ==
    LET pv == InnerIter_previous(it)
        right == parse_left(pv.st, token_kinds, f)
    IN  IF Len(pv.opt) = 0 THEN R(pv.st, Ok(expr))
        ELSE IF right.res.k # "ok" THEN right
        ELSE parse_left_loop(token_kinds, f, Expr_Binary(expr, pv.opt[1], right.res.v), right.st)

\* if let Some(op) = self.inner.previous().cloned() { let right = op_func(self)?; .. }
parse_left_op(token_kinds, f, expr, it) ==
    LET pv == InnerIter_previous(it)
        right == op_func(f, pv.st)
    IN  IF Len(pv.opt) = 0 THEN R(pv.st, Ok(expr))
        ELSE IF right.res.k # "ok" THEN right
        ELSE parse_left_loop(token_kinds, f, Expr_Binary(expr, pv.opt[1], right.res.v), right.st)

\* while self.multi_check(token_kinds) { .. }  Ok(expr)
parse_left_loop(token_kinds, f, expr, it) ==
    LET m == multi_check(it, token_kinds, 1)
    IN  IF ~m.ok THEN R(m.st, Ok(expr))
        ELSE parse_left_op(token_kinds, f, expr, m.st)

\* Parser::parse_left(token_kinds, op_func)
parse_left(it, token_kinds, f) ==
    LET e == op_func(f, it)
    IN  IF e.res.k # "ok" THEN e
        ELSE parse_left_loop(token_kinds, f, e.res.v, e.st)

factor(it) == parse_left(it, <<"/", "*">>, "unary")

term(it) == parse_left(it, <<"+", "-">>, "factor")

comparison(it) == parse_left(it, <<">", ">=", "<", "<=">>, "term")

equality(it) == parse_left(it, <<"==", "!=">>, "comparison")

\* the function handed to parse_left as op_func
op_func(f, it) ==
    CASE f = "comparison" -> comparison(it)
      [] f = "term" -> term(it)
      [] f = "factor" -> factor(it)
      [] f = "unary" -> unary(it)

expression(it) == equality(it)

\* Parser::new(tokens).parse()
parse(collection) == expression(InnerIter_new(collection))

\* the statement-starting keywords synchronize stops at
StatementStart == {"class", "fn", "let", "for", "if", "while", "print", "return"}

\* a turn that does not look at the token before the cursor
synchronize_loop_at_keywords(it) ==
    LET p == InnerIter_peek(it)
    IN  IF Len(p.opt) = 0 THEN [st |-> p.st, done |-> TRUE]
        ELSE IF p.opt[1].kind \in StatementStart THEN [st |-> p.st, done |-> TRUE]
        ELSE [st |-> InnerIter_next(p.st).st, done |-> FALSE]

\* one turn of `while let Some(e) = self.inner.peek() { .. }` in synchronize
synchronize_loop(it) ==
    LET p == InnerIter_peek(it)
        pv == InnerIter_previous(p.st)
    IN  IF Len(p.opt) = 0 THEN [st |-> p.st, done |-> TRUE]
        ELSE IF Len(pv.opt) = 1 /\ pv.opt[1].kind = ";" THEN [st |-> pv.st, done |-> TRUE]
        ELSE IF p.opt[1].kind \in StatementStart THEN [st |-> pv.st, done |-> TRUE]
        ELSE [st |-> InnerIter_next(pv.st).st, done |-> FALSE]

(***************************************************************************)
(* SpecParse: Parser::new(tokens).parse() on every token buffer of at most *)
(* MaxTokens tokens followed by the end marker.                            *)
(* SpecSync: synchronize entered at any cursor of any buffer of at most    *)
(* MaxSyncTokens tokens, one turn of its loop at a time.                   *)
(***************************************************************************)
MaxTokens == 5
MaxSyncTokens == 3

ParseKinds == {"NumericLiteral", "==", "<", "-", "*", "!", "(", ")"}

SyncKinds == StatementStart \cup {";", "nil"}

KindSeqs(kinds, n) == UNION {[1..m -> kinds] : m \in 0..n}

\* no statement has been executed, no operator applied
NoProgram ==
    /\ overflowChecks = FALSE
    /\ lhs = Nil
    /\ rhs = Nil
    /\ opname = ""
    /\ opres = Ok(Nil)
    /\ envs = <<GlobalEnv>>
    /\ out = [writer |-> <<>>, stdout |-> <<>>]
    /\ log = <<>>
    /\ last = Ok(Nil)
    /\ hist = <<>>

\* Parser::new(tokens)
NewParser(collection) ==
    /\ tokens = collection
    /\ current = 0
    /\ phase = "new"
    /\ parsed = Ok(Nil)
    /\ reads = <<>>
    /\ start = 0

InitParse ==
    /\ NoProgram
    /\ \E ks \in KindSeqs(ParseKinds, MaxTokens) : NewParser(TokensOf(ks \o <<"EOF">>))

\* parser.parse()
Parse ==
    /\ phase = "new"
    /\ LET x == parse(tokens)
       IN  /\ current' = x.st.current
           /\ reads' = x.st.reads
           /\ parsed' = x.res
    /\ phase' = "parsed"
    /\ UNCHANGED <<tokens, start>>
    /\ UNCHANGED <<overflowChecks, lhs, rhs, opname, opres>>
    /\ UNCHANGED execVars

NextParse == Parse

SpecParse == InitParse /\ [][NextParse]_vars

InitSync ==
    /\ NoProgram
    /\ \E ks \in KindSeqs(SyncKinds, MaxSyncTokens) : NewParser(TokensOf(ks))

\* the parser's InnerIter
Inner == [collection |-> tokens, current |-> current, reads |-> reads]

\* a token is taken by the parser: self.inner.next()
Advance ==
    /\ phase = "new"
    /\ current < Len(tokens)
    /\ LET it == InnerIter_next(Inner).st
       IN  current' = it.current /\ reads' = it.reads
    /\ UNCHANGED <<tokens, parsed, phase, start>>
    /\ UNCHANGED <<overflowChecks, lhs, rhs, opname, opres>>
    /\ UNCHANGED execVars

\* synchronize is entered: self.inner.next()
SyncEnter ==
    /\ phase = "new"
    /\ LET it == InnerIter_next([Inner EXCEPT !.reads = <<>>]).st
       IN  current' = it.current /\ reads' = it.reads
    /\ phase' = "sync"
    /\ start' = current
    /\ UNCHANGED <<tokens, parsed>>
    /\ UNCHANGED <<overflowChecks, lhs, rhs, opname, opres>>
    /\ UNCHANGED execVars

\* one turn of the loop of synchronize
SyncLoop ==
    /\ phase = "sync"
    /\ LET x == synchronize_loop(Inner)
       IN  /\ current' = x.st.current
           /\ reads' = x.st.reads
           /\ phase' = IF x.done THEN "synced" ELSE "sync"
    /\ UNCHANGED <<tokens, parsed, start>>
    /\ UNCHANGED <<overflowChecks, lhs, rhs, opname, opres>>
    /\ UNCHANGED execVars

NextSync == Advance \/ SyncEnter \/ SyncLoop

SpecSync == InitSync /\ [][NextSync]_vars /\ WF_vars(SyncLoop)

(***************************************************************************)
(* Properties of the value operators (SpecValues)                          *)
(***************************************************************************)
\* an operand widened to f64, and whether it is 0.0 there
WidenF64(x) == IF x.tag = "Integer" THEN <<x.v, 1>> ELSE x.v
IsZeroF64(x) == WidenF64(x)[1] = 0

\* the machine integer that holds x in two's complement
NativeInt(x) == ((x - IntMin) % (2 ^ IntBits)) + IntMin

ExactInt(x, y, op) ==
    CASE op = "+" -> x + y
      [] op = "-" -> x - y
      [] op = "*" -> x * y
      [] op = "/" -> TruncDiv(x, y)

\* C4: eq is total over every pair of values and returns a boolean: true for
\* nil/nil, false for nil against non-nil, by value for two Strings or two
\* Booleans, by the widened floats for two numbers, and false for a number
\* against a non-number in either order.
C4_EqualityTable ==
    opname = "==" =>
        /\ opres.k = "ok"
        /\ opres.v \in BOOLEAN
        /\ (lhs.tag = "Nil" /\ rhs.tag = "Nil") => opres.v
        /\ ((lhs.tag = "Nil") # (rhs.tag = "Nil")) => ~opres.v
        /\ (lhs.tag = rhs.tag /\ lhs.tag \in {"String", "Boolean"}) => (opres.v = (lhs.v = rhs.v))
        /\ (is_num(lhs) /\ is_num(rhs)) => (opres.v = (WidenF64(lhs) = WidenF64(rhs)))
        /\ (is_num(lhs) # is_num(rhs)) => ~opres.v

\* C5: a / b is "operands must be numbers" for a non-numeric operand, else
\* "attempt to divide by zero" when either operand is 0.0 as a float, else a
\* numeric result.
C5_DivisionPreCheck ==
    opname = "/" =>
        IF ~(is_num(lhs) /\ is_num(rhs)) THEN opres = Err("operands must be numbers")
        ELSE IF IsZeroF64(lhs) \/ IsZeroF64(rhs) THEN opres = Err("attempt to divide by zero")
        ELSE opres.k = "ok" /\ is_num(opres.v)

\* C10: + - * (and / with no zero operand) on two numbers give an Integer,
\* the operator's integer result, exactly when both operands are Integer, and
\* otherwise the Decimal computed on the operands widened to Decimal.
C10_NumericWidening ==
    (/\ opname \in {"+", "-", "*", "/"}
     /\ is_num(lhs) /\ is_num(rhs)
     /\ opname = "/" => ~(IsZeroF64(lhs) \/ IsZeroF64(rhs))) =>
        /\ opres.k = "ok"
        /\ IF lhs.tag = "Integer" /\ rhs.tag = "Integer"
           THEN opres.v = Integer(NativeInt(ExactInt(lhs.v, rhs.v, opname)))
           ELSE opres.v = [tag |-> "Decimal", v |-> F64Op(WidenF64(lhs), WidenF64(rhs), opname)]

\* the text `{}` prints for the sample values that are not strings
Rendering(x) ==
    CASE x.tag = "Nil" -> "nil"
      [] x.tag = "Boolean" -> IF x.v THEN "true" ELSE "false"
      [] x.tag = "Callable" -> "<fn f>"
      [] x.tag = "String" -> x.v
      [] x.tag = "Integer" -> ToString(x.v)
      [] x.tag = "Decimal" ->
            CASE x.v = <<1, 2>> -> "0.5"
              [] x.v = <<0 - 3, 2>> -> "-1.5"
              [] OTHER -> ToString(x.v[1])

\* C11: when the operands of + are not both numbers, the result is the String
\* of the left operand's rendering followed by the right operand's if either
\* is a String (whatever the variant of the other), and the error "operands
\* must be number or string" otherwise; "x" + 1 is "x1" and 1 + "x" is "1x".
C11_Concatenation ==
    (opname = "+" /\ ~(is_num(lhs) /\ is_num(rhs))) =>
        IF lhs.tag = "String" \/ rhs.tag = "String"
        THEN /\ opres.k = "ok" /\ opres.v.tag = "String"
             /\ opres.v.v = Rendering(lhs) \o Rendering(rhs)
             /\ (lhs.tag = "String" /\ lhs.v = "x" /\ rhs.tag = "Integer" /\ rhs.v = 1)
                    => opres.v.v = "x1"
             /\ (rhs.tag = "String" /\ rhs.v = "x" /\ lhs.tag = "Integer" /\ lhs.v = 1)
                    => opres.v.v = "1x"
        ELSE opres.k = "err" /\ opres.v = "operands must be number or string"

\* a Decimal that is not whole was concatenated on the left of a String
C11_Witness ==
    /\ opname = "+" /\ lhs.tag = "Decimal" /\ lhs.v = <<0 - 3, 2>>
    /\ rhs.tag = "String" /\ rhs.v = "x"
    /\ opres.k = "ok" /\ opres.v.tag = "String" /\ opres.v.v = "-1.5x"

(***************************************************************************)
(* Properties of statement execution (Spec), read off the log of the last  *)
(* top-level statement                                                     *)
(***************************************************************************)
Events == 1..Len(log)

IsExit(i) == log[i].op = "exit"
IsEnter(i, kind) == log[i].op = "enter" /\ log[i].name = kind

\* C1: after a Return statement inside a function body nothing runs but the
\* exits of the enclosing Block/If/While statements, each passing the same
\* Return signal on, up to the exit of the call, whose result is the carried
\* value; no call ends with a Return signal, and a call whose body ends with
\* an error ends with that error.
C1_ReturnUnwinding ==
    /\ \A i \in Events :
        (IsExit(i) /\ log[i].name = "Return" /\ log[i].val.k = "ret" /\ log[i].cd > 0) =>
            \E j \in (i + 1)..Len(log) :
                /\ log[j].op = "callexit" /\ log[j].cd = log[i].cd
                /\ log[j].val = Ok(log[i].val.v)
                /\ \A m \in (i + 1)..(j - 1) :
                    /\ IsExit(m) /\ log[m].cd = log[i].cd
                    /\ log[m].name \in {"Block", "If", "While"}
                    /\ log[m].val = log[i].val
    /\ \A j \in Events : log[j].op = "callexit" => log[j].val.k # "ret"
    /\ \A j \in Events \ {1} :
        (log[j].op = "callexit" /\ IsExit(j - 1) /\ log[j - 1].val.k = "err") =>
            log[j].val = log[j - 1].val

\* a Return nested in an If in a While in a function body ended a call with its value
C1_Witness ==
    \E i \in Events : \E j \in (i + 1)..Len(log) :
        /\ IsExit(i) /\ log[i].name = "Return" /\ log[i].val.k = "ret"
        /\ log[j].op = "callexit" /\ log[j].val = Ok(Integer(7))
        /\ \E m \in (i + 1)..(j - 1) : log[m].name = "If"
        /\ \E m \in (i + 1)..(j - 1) : log[m].name = "While"
        /\ \A m \in (i + 1)..(j - 1) : IsExit(m)

\* C2: a call of a function runs in a fresh environment whose parent is the
\* environment the function was declared in.
C2_ClosureCapture ==
    \A i \in Events : \A j \in Events :
        (/\ i < j
         /\ IsEnter(i, "Function")
         /\ log[j].op = "call" /\ log[j].name = log[i].val.name) =>
            /\ log[j + 1].op = "from"
            /\ log[j + 1].val = log[i].env

\* C3: a call with as many arguments as parameters binds each parameter to
\* its argument in the new environment; with any other number of arguments
\* it fails with "missing arguments to function call" and no statement of the
\* body executes.
C3_FunctionArity ==
    \A j \in Events :
        log[j].op = "call" =>
            IF Len(log[j].val.args) = Len(log[j].val.params)
            THEN \A q \in 1..Len(log[j].val.params) :
                    /\ log[j + 1 + q].op = "define"
                    /\ log[j + 1 + q].env = log[j + 1].env
                    /\ log[j + 1 + q].name = log[j].val.params[q]
                    /\ log[j + 1 + q].val = log[j].val.args[q]
            ELSE \E x \in (j + 1)..Len(log) :
                    /\ log[x].op = "callexit" /\ log[x].depth = log[j].depth
                    /\ log[x].val = Err("missing arguments to function call")
                    /\ \A m \in (j + 1)..(x - 1) : log[m].op # "enter"

\* C6: every Print statement that completes has written to the injected
\* writer, and nothing is written anywhere else.
C6_PrintSink ==
    /\ \A i \in Events : log[i].op = "write" => log[i].name = "writer"
    /\ \A i \in Events \ {1} :
        (IsExit(i) /\ log[i].name = "Print" /\ log[i].val.k = "ok") =>
            log[i - 1].op = "write" /\ log[i - 1].name = "writer"
    /\ out.stdout = <<>>

\* C7: a Class statement binds its name to Nil, then overwrites the binding
\* with a Callable class whose method table holds every declared method.
C7_ClassDeclaration ==
    \A i \in Events :
        IsEnter(i, "Class") =>
            /\ log[i + 1].op = "define" /\ log[i + 1].env = log[i].env
            /\ log[i + 1].name = log[i].val.name /\ log[i + 1].val = Nil
            /\ log[i + 2].op = "assign" /\ log[i + 2].env = log[i].env
            /\ log[i + 2].name = log[i].val.name
            /\ log[i + 2].val.tag = "Callable" /\ log[i + 2].val.v.kind = "Class"
            /\ \A q \in 1..Len(log[i].val.methods) :
                \E r \in 1..Len(log[i + 2].val.v.methods) :
                    log[i + 2].val.v.methods[r].name = log[i].val.methods[q].name
            /\ IsExit(i + 3) /\ log[i + 3].val.k = "ok"
            /\ envs[log[i].env].vars[log[i].val.name].tag = "Callable"

\* C8: once a statement or a call has ended with a runtime error, nothing
\* happens but enclosing statements and calls ending with that same error: no
\* statement starts, nothing is written, nothing is defined or assigned; and
\* the error is the result of the whole execution.
C8_RuntimeErrorAbort ==
    \A i \in Events :
        (log[i].op \in {"exit", "callexit"} /\ log[i].val.k = "err") =>
            /\ \A m \in (i + 1)..Len(log) :
                /\ log[m].op \in {"exit", "callexit"}
                /\ log[m].val.k = "err" /\ log[m].val.v = log[i].val.v
            /\ last.k = "err" /\ last.v = log[i].val.v

\* the first statement of a Block of several statements failed inside a
\* session that had already produced output
C8_Witness ==
    /\ last.k = "err" /\ last.v = "attempt to divide by zero"
    /\ out.writer # <<>>
    /\ \E i \in Events :
        /\ IsEnter(i, "Block") /\ Len(log[i].val.stmts) >= 2
        /\ IsEnter(i + 2, "Print")
        /\ IsExit(i + 3) /\ log[i + 3].val.k = "err"
        /\ IsExit(i + 4) /\ log[i + 4].name = "Block"

\* the statements started directly by the statement entered at i and left at j
Kids(i, j) ==
    SelectSeq(SubSeq(log, i + 1, j - 1),
              LAMBDA e : e.op = "enter" /\ e.depth = log[i].depth + 1)

\* C9: a Block makes exactly one environment, a child of the current one,
\* and runs its statements in order in it; If and While run their bodies in
\* the current environment and make none; a Variable statement defines its
\* name in the environment it runs in; and the spec's example prints 2, 1.
C9_BlockScoping ==
    /\ \A i \in Events :
        log[i].op = "enter" =>
            \E j \in (i + 1)..Len(log) :
                /\ IsExit(j) /\ log[j].depth = log[i].depth
                /\ \A m \in (i + 1)..(j - 1) : log[m].depth >= log[i].depth /\ ~(IsExit(m) /\ log[m].depth = log[i].depth)
                /\ log[i].name = "Block" =>
                    /\ log[i + 1].op = "from" /\ log[i + 1].depth = log[i].depth
                    /\ log[i + 1].val = log[i].env
                    /\ \A m \in (i + 2)..(j - 1) :
                        /\ ~(log[m].op = "from" /\ log[m].depth = log[i].depth)
                        /\ (log[m].op = "enter" /\ log[m].depth = log[i].depth + 1) =>
                            log[m].env = log[i + 1].env
                    /\ Len(Kids(i, j)) <= Len(log[i].val.stmts)
                    /\ \A q \in 1..Len(Kids(i, j)) : Kids(i, j)[q].name = log[i].val.stmts[q].kind
                    /\ log[j].val.k = "ok" => Len(Kids(i, j)) = Len(log[i].val.stmts)
                /\ log[i].name \in {"If", "While"} =>
                    \A m \in (i + 1)..(j - 1) :
                        /\ ~(log[m].op = "from" /\ log[m].depth = log[i].depth)
                        /\ (log[m].op = "enter" /\ log[m].depth = log[i].depth + 1) =>
                            log[m].env = log[i].env
                /\ (log[i].name = "Variable" /\ log[j].val.k = "ok") =>
                    /\ log[j - 1].op = "define" /\ log[j - 1].env = log[i].env
                    /\ log[j - 1].name = log[i].val.name
                    /\ \A m \in (i + 1)..(j - 2) :
                        ~(log[m].op \in {"define", "assign"} /\ log[m].depth = log[i].depth /\ log[m].cd = log[i].cd)
    /\ hist = <<1, 2, 3>> => out.writer = <<"2\n", "1\n">>

\* `let a = 1; { let a = 2; print a; } print a;` has run and printed 2 then 1
C9_Witness ==
    /\ hist = <<1, 2, 3>>
    /\ out.writer = <<"2\n", "1\n">>
    /\ envs[1].vars["a"] = Integer(1)

(***************************************************************************)
(* Properties of the parser (SpecParse)                                    *)
(***************************************************************************)
Kinds == [i \in 1..Len(tokens) |-> tokens[i].kind]

\* the level of a binary operator on the ladder, lowest binding first
Level(kind) ==
    CASE kind \in {"==", "!="} -> 1
      [] kind \in {">", ">=", "<", "<="} -> 2
      [] kind \in {"+", "-"} -> 3
      [] kind \in {"/", "*"} -> 4
      [] OTHER -> 0

\* the level of the production that built an expression
Rank(e) ==
    CASE e.kind = "Binary" -> Level(e.op.kind)
      [] e.kind = "Unary" -> 5
      [] OTHER -> 6

\* every operator's left operand is of its level or higher, its right operand
\* of a higher level; the operand of a prefix operator is unary or primary
RECURSIVE Laddered(_)
Laddered(e) ==
    CASE e.kind = "Binary" ->
            /\ Level(e.op.kind) > 0
            /\ Rank(e.left) >= Level(e.op.kind)
            /\ Rank(e.right) > Level(e.op.kind)
            /\ Laddered(e.left) /\ Laddered(e.right)
      [] e.kind = "Unary" ->
            /\ e.op.kind \in {"!", "-"}
            /\ Rank(e.right) >= 5
            /\ Laddered(e.right)
      [] e.kind = "Grouping" -> Laddered(e.expr)
      [] OTHER -> TRUE

\* the spans of the tokens an expression was built from, left to right (a
\* Grouping holds the parentheses around its expression)
RECURSIVE Spans(_)
Spans(e) ==
    CASE e.kind = "Binary" -> Spans(e.left) \o <<e.op.span>> \o Spans(e.right)
      [] e.kind = "Unary" -> <<e.op.span>> \o Spans(e.right)
      [] e.kind = "Grouping" ->
            <<Spans(e.expr)[1] - 1>> \o Spans(e.expr)
                \o <<Spans(e.expr)[Len(Spans(e.expr))] + 1>>
      [] OTHER -> <<e.value.span>>

\* literals alternating with binary operators: l op l op l ..
Alternating ==
    /\ Len(tokens) % 2 = 0
    /\ \A i \in 1..(Len(tokens) - 1) :
        IF i % 2 = 1 THEN Kinds[i] = "NumericLiteral" ELSE Level(Kinds[i]) > 0

Lit(i) == Expr_Literal(Token("NumericLiteral", i))

\* C12: the expression parse returns is built on the ladder equality <
\* comparison < term < factor < unary < primary from exactly the tokens it
\* took, in their order; literals alternating with binary operators always
\* parse, to the end marker; a - b - c is Binary(Binary(a,-,b),-,c), - - a is
\* Unary(-, Unary(-, a)), and * binds tighter than - on either side.
C12_Precedence ==
    phase = "parsed" =>
        /\ parsed.k = "ok" =>
            /\ Laddered(parsed.v)
            /\ Spans(parsed.v) = [i \in 1..current |-> i]
        /\ Alternating => (parsed.k = "ok" /\ current = Len(tokens) - 1)
        /\ Kinds = <<"NumericLiteral", "-", "NumericLiteral", "-", "NumericLiteral", "EOF">> =>
            /\ parsed.k = "ok"
            /\ parsed.v = Expr_Binary(Expr_Binary(Lit(1), Token("-", 2), Lit(3)),
                                      Token("-", 4), Lit(5))
        /\ Kinds = <<"-", "-", "NumericLiteral", "EOF">> =>
            /\ parsed.k = "ok"
            /\ parsed.v = Expr_Unary(Token("-", 1), Expr_Unary(Token("-", 2), Lit(3)))
        /\ Kinds = <<"NumericLiteral", "-", "NumericLiteral", "*", "NumericLiteral", "EOF">> =>
            /\ parsed.k = "ok"
            /\ parsed.v = Expr_Binary(Lit(1), Token("-", 2),
                                      Expr_Binary(Lit(3), Token("*", 4), Lit(5)))
        /\ Kinds = <<"NumericLiteral", "*", "NumericLiteral", "-", "NumericLiteral", "EOF">> =>
            /\ parsed.k = "ok"
            /\ parsed.v = Expr_Binary(Expr_Binary(Lit(1), Token("*", 2), Lit(3)),
                                      Token("-", 4), Lit(5))

\* l == l < l was parsed: the comparison is the right operand of the equality
C12_Witness ==
    /\ phase = "parsed"
    /\ Kinds = <<"NumericLiteral", "==", "NumericLiteral", "<", "NumericLiteral", "EOF">>
    /\ parsed.k = "ok" /\ parsed.v.kind = "Binary"
    /\ parsed.v.op.kind = "==" /\ parsed.v.right.kind = "Binary"
    /\ parsed.v.right.op.kind = "<"

\* the indices of the tokens taken by next, in the order they were taken
Taken ==
    LET nexts == SelectSeq(reads, LAMBDA e : e.op = "next" /\ e.idx = e.cur - 1)
    IN  [i \in 1..Len(nexts) |-> nexts[i].idx]

\* C14: parse of a buffer that ends with the end marker keeps the cursor
\* within 0..number of tokens and never moves it backward; peek reads the
\* token at the cursor, next takes it, previous reads the one just before the
\* cursor, and nothing else is read; parse returns an expression or one of
\* the two syntax errors, never a panic; the tokens are taken one by one in
\* buffer order, and on success the tokens before the cursor are exactly the
\* tokens of the expression returned, each once.
C14_CursorDiscipline ==
    phase = "parsed" /\ Len(tokens) > 0 /\ tokens[Len(tokens)].kind = "EOF" =>
        /\ current \in 0..Len(tokens)
        /\ \A i \in 1..Len(reads) :
            /\ reads[i].cur \in 0..Len(tokens)
            /\ i > 1 => reads[i - 1].cur <= reads[i].cur
            /\ reads[i].op = "peek" => reads[i].idx = reads[i].cur
            /\ reads[i].op = "previous" => reads[i].idx = reads[i].cur - 1
            /\ reads[i].op = "next" =>
                \/ reads[i].idx = reads[i].cur - 1
                \/ reads[i].idx = reads[i].cur /\ reads[i].cur = Len(tokens)
            /\ reads[i].op \in {"peek", "previous", "next"}
        /\ Len(reads) > 0 /\ reads[Len(reads)].cur = current
        /\ parsed.k \in {"ok", "err"}
        /\ parsed.k = "err" =>
            parsed.v \in {"expected expression", "expected ')' after expression"}
        /\ Taken = [i \in 1..current |-> i - 1]
        /\ parsed.k = "ok" => Spans(parsed.v) = [i \in 1..current |-> i]

\* ( l ) * l was parsed: the five tokens before the end marker were taken
C14_Witness ==
    /\ phase = "parsed"
    /\ Kinds = <<"(", "NumericLiteral", ")", "*", "NumericLiteral", "EOF">>
    /\ parsed.k = "ok" /\ parsed.v.kind = "Binary"
    /\ parsed.v.left.kind = "Grouping"
    /\ current = 5
    /\ Taken = <<0, 1, 2, 3, 4>>

(***************************************************************************)
(* Properties of synchronize (SpecSync)                                    *)
(***************************************************************************)
\* cursor b is at a statement boundary: the token before it is a semicolon,
\* or the token at it starts a statement, or it is the end of the buffer
Boundary(b) ==
    \/ b = Len(tokens)
    \/ b >= 1 /\ tokens[b].kind = ";"
    \/ b < Len(tokens) /\ tokens[b + 1].kind \in StatementStart

\* the first statement boundary at or after cursor from
FirstBoundary(from) ==
    CHOOSE b \in from..Len(tokens) :
        Boundary(b) /\ \A c \in from..(b - 1) : ~Boundary(c)

\* C13 as stated: synchronize stops between the cursor it was entered at and
\* the end of the buffer, at a statement boundary, and no token beyond the
\* first statement boundary from the cursor it was entered at is discarded.
C13_FirstBoundary ==
    phase = "synced" =>
        /\ start <= current /\ current <= Len(tokens)
        /\ Boundary(current)
        /\ current <= FirstBoundary(start)

\* C13, amended: synchronize terminates; the cursor never moves backward and
\* never past the end; the token at the cursor synchronize was entered at is
\* always discarded, and synchronize stops at the first statement boundary
\* after it: no token beyond that boundary is discarded.
C13_Synchronize ==
    /\ [](phase \in {"sync", "synced"} => (start <= current /\ current <= Len(tokens)))
    /\ [][current' >= current]_vars
    /\ [](phase = "synced" =>
            /\ Boundary(current)
            /\ current = FirstBoundary(IF start < Len(tokens) THEN start + 1 ELSE start))
    /\ (phase = "sync") ~> (phase = "synced")

\* entered at the keyword of `print ; nil`, synchronize stopped after the
\* semicolon
C13_Witness ==
    /\ phase = "synced"
    /\ Kinds = <<"print", ";", "nil">>
    /\ start = 0
    /\ Boundary(start)
    /\ current = 2

=============================================================================
